---- MODULE Spec2Model ----
(***************************************************************************)
(* Vectorizer: the two vector stores of app/connections.py                 *)
(* (MongoVectorStore, an exact scan over a document collection, and        *)
(* RedisVectorStore, hashes under a RediSearch KNN index) and the          *)
(* orchestrator of app/main.py (DocumentVectorizer and __main__).          *)
(*                                                                         *)
(* Python values are modelled as follows.                                  *)
(*   - an optional value (page_number, file_type_filter) is a sequence:    *)
(*     <<>> is None and <<v>> is the value v;                              *)
(*   - an embedding is a sequence of integers; the vectors used have an    *)
(*     integer Euclidean norm, so that every cosine similarity is an exact *)
(*     multiple of 1/Scale and is kept as that integer numerator;          *)
(*   - the outcome of a call is Ok(value) or Raise(exception class);       *)
(*   - the servers (MongoDB, Redis with RediSearch) are the environment:   *)
(*     any call sent to them may fail, which the fault argument of each    *)
(*     operation chooses (0: no call fails, j: the j-th call fails).       *)
(* The created_at timestamp of a record is left out: nothing reads it.     *)
(***************************************************************************)
EXTENDS Integers, Sequences, FiniteSets, TLC

VARIABLES
    VECTOR_STORE,   \* config_params["VECTOR_STORE"], the backend selector
    client,         \* the store object the caller holds: "none", "mongo", "redis"
    collection,     \* MongoDB: the documents of the collection, in insertion order
    hashes,         \* Redis: key -> hash record
    indexExists,    \* Redis: the search index REDIS_INDEX_NAME exists
    op,             \* the last operation called and its arguments
    ret,            \* its outcome
    calls,          \* the server calls it issued, in order
    logged,         \* the messages it logged through mylogger
    storedPairs,    \* history: pairs handed to store_embeddings calls that returned
    pc,             \* __main__: position of the program
    documents,      \* __main__: the documents still to process
    invoked,        \* __main__: the methods called once the vectorizer is built
    initError,      \* the exception DocumentVectorizer.__init__ caught ("none": none)
    pending         \* __main__: the exception propagating out of the try block

vars == <<VECTOR_STORE, client, collection, hashes, indexExists,
          op, ret, calls, logged, storedPairs, pc, documents, invoked,
          initError, pending>>

(***************************************************************************)
(* Bounds of the model.                                                    *)
(***************************************************************************)
MaxBatch == 2
MaxRecords == 2
MaxTopK == 2

(***************************************************************************)
(* Program constants.                                                      *)
(***************************************************************************)
EMBEDDING_DIM == 2
FLOAT32_BYTES == 4
PAGE_SENTINEL == -1

None == <<>>
Some(v) == <<v>>
FileTypes == {"pdf", "txt", "docx"}
FileTypeList == <<"pdf", "txt", "docx">>
EMBEDDING_MODEL == "all-MiniLM-L6-v2"
REDIS_DOC_PREFIX == "doc:"

Ok(v) == [kind |-> "ok", val |-> v, exc |-> "none"]
Raise(e) == [kind |-> "raise", val |-> <<>>, exc |-> e]

Min(a, b) == IF a <= b THEN a ELSE b

(***************************************************************************)
(* Inputs: chunks as the extractors build them, and embeddings.            *)
(***************************************************************************)
Chunks ==
    { [text |-> "p", page_number |-> Some(1), chunk_index |-> 0,
       source |-> "a.pdf", file_type |-> "pdf"],
      [text |-> "t", page_number |-> None, chunk_index |-> 0,
       source |-> "b.txt", file_type |-> "txt"],
      [text |-> "d", page_number |-> None, chunk_index |-> 1,
       source |-> "c.docx", file_type |-> "docx"] }

GoodEmbeddings == { <<1, 0>>, <<3, 4>> }
BadEmbeddings == { <<1>> }
Embeddings == GoodEmbeddings \cup BadEmbeddings
Queries == { <<1, 0>>, <<0, 1>> }
DocumentNames == {"a", "b"}

\* the lists of at most n elements of S, the empty list included
SeqsUpTo(S, n) == UNION { [1..m -> S] : m \in 0..n }

(***************************************************************************)
(* numpy: dot product, norm, cosine similarity.                            *)
(***************************************************************************)
RECURSIVE DotFrom(_, _, _)
DotFrom(a, b, i) ==
    IF i > Len(a) THEN 0 ELSE a[i] * b[i] + DotFrom(a, b, i + 1)

Dot(a, b) == DotFrom(a, b, 1)

Norm(a) == CHOOSE n \in 0..Dot(a, a) : n * n = Dot(a, a)

Scale == 5 * 5

\* dot(q, v) / (|q| * |v|), as a multiple of 1/Scale
Cosine(q, v) == (Dot(q, v) * Scale) \div (Norm(q) * Norm(v))

(***************************************************************************)
(* MongoVectorStore.                                                       *)
(***************************************************************************)
\* a constructed store: its class and its _is_connected flag
StoreObject(class, connected) == [class |-> class, is_connected |-> connected]

MongoConnectFaults == {"none", "ServerSelectionTimeoutError", "ConnectionFailure", "Exception"}

\* __init__: every exception of the try block is re-raised as DatabaseConnectionError
MongoVectorStore_init(fault) ==
    IF fault = "none"
    THEN [ret |-> Ok(StoreObject("mongo", TRUE)), calls |-> <<"MongoClient">>,
          logged |-> <<"info: MongoDB vector store initialized">>]
    ELSE [ret |-> Raise("DatabaseConnectionError"), calls |-> <<"MongoClient">>,
          logged |-> <<IF fault = "Exception" THEN "error: MongoDB connection error"
                       ELSE "error: MongoDB connection failed">>]

\* zip(chunks, embeddings) stops at the shorter of the two
ZipLen(chunks, embeddings) == Min(Len(chunks), Len(embeddings))

\* str(x) of an identifier
Str(x) == <<"str", x>>

MongoDoc(chunk, embedding, document_name, oid) ==
    [_id |-> oid,
     document_name |-> document_name,
     text |-> chunk.text,
     page_number |-> chunk.page_number,
     chunk_index |-> chunk.chunk_index,
     source |-> chunk.source,
     file_type |-> chunk.file_type,
     embedding |-> embedding,
     embedding_model |-> EMBEDDING_MODEL,
     embedding_dimension |-> Len(embedding)]

\* faulty variant of store_embeddings: lists of different lengths are refused,
\* as zip(chunks, embeddings, strict=True) would
MongoStoreEmbeddingsStrict(coll, chunks, embeddings, document_name, fault) ==
    LET n == ZipLen(chunks, embeddings)
        docs == [i \in 1..n |->
                   MongoDoc(chunks[i], embeddings[i], document_name, Len(coll) + i)]
    IN  IF Len(chunks) # Len(embeddings)
        THEN [ret |-> Raise("ValueError"), collection |-> coll, calls |-> <<>>]
        ELSE IF n = 0
        THEN [ret |-> Raise("TypeError"), collection |-> coll, calls |-> <<"insert_many">>]
        ELSE IF fault # 0
        THEN [ret |-> Raise("PyMongoError"), collection |-> coll, calls |-> <<"insert_many">>]
        ELSE [ret |-> Ok([i \in 1..n |-> Str(docs[i]._id)]),
              collection |-> coll \o docs,
              calls |-> <<"insert_many">>]

\* faulty variant of store_embeddings: the identifiers come back in the
\* reverse of the order inserted
MongoStoreEmbeddingsReversedIds(coll, chunks, embeddings, document_name, fault) ==
    LET n == ZipLen(chunks, embeddings)
        docs == [i \in 1..n |->
                   MongoDoc(chunks[i], embeddings[i], document_name, Len(coll) + i)]
    IN  IF n = 0
        THEN [ret |-> Raise("TypeError"), collection |-> coll, calls |-> <<"insert_many">>]
        ELSE IF fault # 0
        THEN [ret |-> Raise("PyMongoError"), collection |-> coll, calls |-> <<"insert_many">>]
        ELSE [ret |-> Ok([i \in 1..n |-> Str(docs[n + 1 - i]._id)]),
              collection |-> coll \o docs,
              calls |-> <<"insert_many">>]

\* store_embeddings: build one document per pair, then one insert_many; the
\* server gives the documents fresh ObjectIds, returned in the order inserted.
\* insert_many refuses an empty list.
MongoStoreEmbeddings(coll, chunks, embeddings, document_name, fault) ==
    LET n == ZipLen(chunks, embeddings)
        docs == [i \in 1..n |->
                   MongoDoc(chunks[i], embeddings[i], document_name, Len(coll) + i)]
    IN  IF n = 0
        THEN [ret |-> Raise("TypeError"), collection |-> coll, calls |-> <<"insert_many">>]
        ELSE IF fault # 0
        THEN [ret |-> Raise("PyMongoError"), collection |-> coll, calls |-> <<"insert_many">>]
        ELSE [ret |-> Ok([i \in 1..n |-> Str(docs[i]._id)]),
              collection |-> coll \o docs,
              calls |-> <<"insert_many">>]

\* `if file_type_filter:` is false for None and for the empty string
FilterGiven(file_type_filter) ==
    file_type_filter # None /\ file_type_filter[1] # ""

\* faulty variant of the find: the filter document is ignored
MongoFindUnfiltered(coll, file_type_filter) == coll

\* collection.find(filter_query)
MongoFind(coll, file_type_filter) ==
    IF FilterGiven(file_type_filter)
    THEN SelectSeq(coll, LAMBDA d : d.file_type = file_type_filter[1])
    ELSE coll

MongoResult(doc, query_embedding) ==
    [text |-> doc.text,
     document_name |-> doc.document_name,
     page_number |-> doc.page_number,
     file_type |-> doc.file_type,
     similarity_score |-> Cosine(query_embedding, doc.embedding),
     id |-> Str(doc._id)]

\* faulty variant of the sort: a record goes in front of those it ties with
RECURSIVE InsertDescTiesFirst(_, _)
InsertDescTiesFirst(sorted, r) ==
    IF sorted = <<>> THEN <<r>>
    ELSE IF Head(sorted).similarity_score > r.similarity_score
         THEN <<Head(sorted)>> \o InsertDescTiesFirst(Tail(sorted), r)
         ELSE <<r>> \o sorted

\* list.sort(key = similarity_score, reverse = True): stable, descending
RECURSIVE InsertDesc(_, _)
InsertDesc(sorted, r) ==
    IF sorted = <<>> THEN <<r>>
    ELSE IF Head(sorted).similarity_score >= r.similarity_score
         THEN <<Head(sorted)>> \o InsertDesc(Tail(sorted), r)
         ELSE <<r>> \o sorted

RECURSIVE SortDescFrom(_, _, _)
SortDescFrom(results, i, acc) ==
    IF i > Len(results) THEN acc
    ELSE SortDescFrom(results, i + 1, InsertDesc(acc, results[i]))

SortDesc(results) == SortDescFrom(results, 1, <<>>)

\* results[:top_k], top_k >= 0
Take(s, k) == SubSeq(s, 1, Min(k, Len(s)))

\* similarity_search: no try block, so a failing find and the ValueError of
\* np.dot on vectors of different lengths both reach the caller
MongoSimilaritySearch(coll, query_embedding, top_k, file_type_filter, fault) ==
    LET all_docs == MongoFind(coll, file_type_filter)
        results == [i \in 1..Len(all_docs) |-> MongoResult(all_docs[i], query_embedding)]
    IN  IF fault # 0 THEN [ret |-> Raise("PyMongoError"), calls |-> <<"find">>]
        ELSE IF all_docs = <<>> THEN [ret |-> Ok(<<>>), calls |-> <<"find">>]
        ELSE IF \E i \in 1..Len(all_docs) :
                    Len(all_docs[i].embedding) # Len(query_embedding)
        THEN [ret |-> Raise("ValueError"), calls |-> <<"find">>]
        ELSE [ret |-> Ok(Take(SortDesc(results), top_k)), calls |-> <<"find">>]

\* collection.count_documents(filter)
MongoCount(coll, file_type) ==
    Len(SelectSeq(coll, LAMBDA d : d.file_type = file_type))

\* the empty by_file_type mapping, {}
EmptyBreakdown == [t \in {} |-> 0]

\* by_file_type: the types with a positive count
ByFileType(count) ==
    [t \in {u \in FileTypes : count[u] > 0} |-> count[t]]

\* get_statistics: one unfiltered count and one count per file type, no try block
MongoGetStatistics(coll, fault) ==
    LET issued == IF fault = 0 THEN 1 + Len(FileTypeList) ELSE fault
        log == [i \in 1..issued |-> "count_documents"]
        Count(t) == MongoCount(coll, t)
    IN  IF fault # 0 THEN [ret |-> Raise("PyMongoError"), calls |-> log]
        ELSE [ret |-> Ok([total_chunks |-> Len(coll), by_file_type |-> ByFileType([t \in FileTypes |-> Count(t)])]),
              calls |-> log]

(***************************************************************************)
(* RedisVectorStore.                                                       *)
(***************************************************************************)
\* What the server answers to the calls of __init__: ping, the index probe
\* (ft.info) and create_index. "ConnectionError" is redis.exceptions.
\* ConnectionError (it covers a rejected password); "other" is any other
\* exception (a timeout, a ResponseError). "na": the call is not reached.
\* The probe can only succeed on an existing index, and create_index is
\* refused ("Index already exists", a ResponseError) on an existing one.
RedisConnectPlans(exists) ==
    { [ping |-> "ConnectionError", probe |-> "na", create |-> "na"],
      [ping |-> "other", probe |-> "na", create |-> "na"] }
    \cup (IF exists THEN { [ping |-> "ok", probe |-> "ok", create |-> "na"] } ELSE {})
    \cup { [ping |-> "ok", probe |-> p, create |-> c] :
             p \in {"ConnectionError", "other"},
             c \in (IF exists THEN {} ELSE {"ok"}) \cup {"ConnectionError", "other"} }

\* _create_index: a probe that raises anything leads to a create_index call;
\* what create_index raises leaves _create_index
RedisCreateIndex(exists, plan) ==
    IF plan.probe = "ok"
    THEN [exc |-> "none", indexExists |-> exists, calls |-> <<"info", "info">>,
          logged |-> <<"error: Index already exists">>]
    ELSE IF plan.create = "ok"
    THEN [exc |-> "none", indexExists |-> TRUE, calls |-> <<"info", "create_index">>,
          logged |-> <<"info: Created new search index">>]
    ELSE [exc |-> plan.create, indexExists |-> exists,
          calls |-> <<"info", "create_index">>, logged |-> <<>>]

\* __init__: only redis.exceptions.ConnectionError is re-raised (as
\* DatabaseConnectionError); any other exception is logged and construction
\* returns the object
RedisVectorStore_init(exists, plan) ==
    LET ci == RedisCreateIndex(exists, plan)
        exc == IF plan.ping # "ok" THEN plan.ping ELSE ci.exc
        issued == IF plan.ping # "ok" THEN <<"ping">> ELSE <<"ping">> \o ci.calls
        log == IF plan.ping # "ok" THEN <<>> ELSE ci.logged
    IN  [ret |-> IF exc = "ConnectionError" THEN Raise("DatabaseConnectionError")
                 ELSE Ok(StoreObject("redis", plan.ping = "ok")),
         indexExists |-> IF plan.ping # "ok" THEN exists ELSE ci.indexExists,
         calls |-> issued,
         logged |-> log \o (IF exc = "none"
                            THEN <<"info: Redis vector store initialized">>
                            ELSE <<"error: Redis connection failed">>)]

\* faulty variant of the key: the position in the batch is left out
RedisKeyWithoutOffset(document_name, chunk_index, i) ==
    <<REDIS_DOC_PREFIX, document_name, ":", chunk_index>>

\* f"{self.prefix}{document_name}:{chunk['chunk_index']}:{i}"
RedisKey(document_name, chunk_index, i) ==
    <<REDIS_DOC_PREFIX, document_name, ":", chunk_index, ":", i>>

\* embedding.astype(np.float32).tobytes()
ToBytes(embedding) ==
    [nbytes |-> FLOAT32_BYTES * Len(embedding), f32 |-> embedding]

\* the truth value of chunk['page_number']: None and 0 are false
PageTruthy(page_number) == page_number # None /\ page_number[1] # 0

RedisHash(chunk, embedding, document_name) ==
    [document_name |-> document_name,
     text |-> chunk.text,
     page_number |-> IF PageTruthy(chunk.page_number) THEN chunk.page_number[1]
                     ELSE PAGE_SENTINEL,
     chunk_index |-> chunk.chunk_index,
     source |-> chunk.source,
     file_type |-> chunk.file_type,
     embedding_model |-> EMBEDDING_MODEL,
     embedding_dimension |-> Len(embedding),
     embedding |-> ToBytes(embedding)]

\* client.hset(key, mapping): creates the hash or overwrites its fields
HSet(h, key, mapping) ==
    [k \in DOMAIN h \cup {key} |-> IF k = key THEN mapping ELSE h[k]]

\* the hashes after the first m pairs are written (i counts from 0)
RECURSIVE RedisWrite(_, _, _, _, _)
RedisWrite(h, chunks, embeddings, document_name, m) ==
    IF m = 0 THEN h
    ELSE HSet(RedisWrite(h, chunks, embeddings, document_name, m - 1),
              RedisKey(document_name, chunks[m].chunk_index, m - 1),
              RedisHash(chunks[m], embeddings[m], document_name))

\* store_embeddings: one hset per pair, in order; the hset that fails ends the
\* call, the hashes written before it stay
RedisStoreEmbeddings(h, chunks, embeddings, document_name, fault) ==
    LET n == ZipLen(chunks, embeddings)
        failed == fault # 0 /\ fault <= n
        written == IF failed THEN fault - 1 ELSE n
        issued == IF failed THEN fault ELSE n
    IN  [ret |-> IF failed THEN Raise("RedisError")
                 ELSE Ok([i \in 1..n |->
                            RedisKey(document_name, chunks[i].chunk_index, i - 1)]),
         hashes |-> RedisWrite(h, chunks, embeddings, document_name, written),
         calls |-> [i \in 1..issued |-> "hset"]]

(***************************************************************************)
(* RediSearch, the engine behind the index (environment).  The index is    *)
(* over the hashes under the key prefix; a hash whose embedding blob is    *)
(* not DIM * 4 bytes long fails indexing and is in no query's result.      *)
(***************************************************************************)
Indexed(h) ==
    { k \in DOMAIN h : h[k].embedding.nbytes = EMBEDDING_DIM * FLOAT32_BYTES }

\* COSINE distance of the engine: 1 - cosine similarity
Distance(vec, blob) == Scale - Cosine(vec.f32, blob.f32)

TagMatches(h, tag) ==
    { k \in Indexed(h) : tag = None \/ h[k].file_type = tag[1] }

\* a field of a reply is text
EngineDoc(h, k, vec) ==
    [id |-> k,
     document_name |-> h[k].document_name,
     text |-> h[k].text,
     page_number |-> Str(h[k].page_number),
     file_type |-> h[k].file_type,
     score |-> Str(Distance(vec, h[k].embedding))]

\* the replies the engine may give to "<tag filter>=>[KNN knn @embedding $vec
\* AS score]" sorted by score, paged: the knn nearest of the matching hashes,
\* nearest first; which of several equally distant hashes is kept, and their
\* order, is the engine's choice
EngineKnn(h, q, vec) ==
    LET cands == TagMatches(h, q.tag)
        m == Min(q.knn, Cardinality(cands))
        nearest == { S \in SUBSET cands :
                       /\ Cardinality(S) = m
                       /\ \A a \in S, b \in cands \ S :
                            Distance(vec, h[a].embedding) <= Distance(vec, h[b].embedding) }
        orders(S) == { s \in [1..m -> S] :
                         /\ \A i, j \in 1..m : i # j => s[i] # s[j]
                         /\ \A i \in 1..(m - 1) :
                              Distance(vec, h[s[i]].embedding)
                                <= Distance(vec, h[s[i + 1]].embedding) }
        page(s) == SubSeq(s, q.offset + 1, Min(q.offset + q.num, m))
    IN  { [i \in 1..Len(page(s)) |-> EngineDoc(h, page(s)[i], vec)] :
            s \in UNION { orders(S) : S \in nearest } }

\* Query(query_str).return_fields(...).sort_by("score").paging(0, top_k)
RedisQuery(top_k, file_type_filter) ==
    [tag |-> IF FilterGiven(file_type_filter) THEN file_type_filter ELSE None,
     knn |-> top_k,
     sort_by |-> "score",
     offset |-> 0,
     num |-> top_k]

\* int(s), float(s) of a reply field
Num(s) == s[2]

\* faulty variant of the conversion: the page sentinel is not decoded
RedisResultSentinelKept(doc) ==
    [text |-> doc.text,
     document_name |-> doc.document_name,
     page_number |-> Some(Num(doc.page_number)),
     file_type |-> doc.file_type,
     similarity_score |-> Scale - Num(doc.score),
     id |-> doc.id]

\* faulty variant of the conversion: the distance is given as the score
RedisResultDistanceAsScore(doc) ==
    [text |-> doc.text,
     document_name |-> doc.document_name,
     page_number |-> IF Num(doc.page_number) # PAGE_SENTINEL
                     THEN Some(Num(doc.page_number)) ELSE None,
     file_type |-> doc.file_type,
     similarity_score |-> Num(doc.score),
     id |-> doc.id]

\* one reply document converted to a result: page sentinel decoded,
\* similarity = 1 - distance
RedisResult(doc) ==
    [text |-> doc.text,
     document_name |-> doc.document_name,
     page_number |-> IF Num(doc.page_number) # PAGE_SENTINEL
                     THEN Some(Num(doc.page_number)) ELSE None,
     file_type |-> doc.file_type,
     similarity_score |-> Scale - Num(doc.score),
     id |-> doc.id]

\* similarity_search: the search call and the conversion of its reply are in
\* one try block; any exception is logged and [] returned.  reply is the
\* engine's answer; the engine raises when the index does not exist.
RedisSimilaritySearch(exists, reply, fault) ==
    IF fault # 0 \/ ~exists
    THEN [ret |-> Ok(<<>>), calls |-> <<"search">>, logged |-> <<"error: Search error">>]
    ELSE [ret |-> Ok([i \in 1..Len(reply) |-> RedisResult(reply[i])]),
          calls |-> <<"search">>, logged |-> <<>>]

\* results.total of Query("@file_type:{t}").no_content()
RedisCount(h, file_type) ==
    Cardinality({ k \in Indexed(h) : h[k].file_type = file_type })

\* get_statistics: ft.info for num_docs, then one search per file type, all in
\* one try block; any exception is logged and the zeroed result returned
RedisGetStatistics(h, exists, fault) ==
    LET failAt == IF ~exists THEN 1 ELSE fault
        issued == IF failAt = 0 THEN 1 + Len(FileTypeList) ELSE failAt
        log == [i \in 1..issued |-> IF i = 1 THEN "info" ELSE "search"]
        Count(t) == RedisCount(h, t)
    IN  IF failAt # 0
        THEN [ret |-> Ok([total_chunks |-> 0, by_file_type |-> EmptyBreakdown]),
              calls |-> log, logged |-> <<"error: Statistics error">>]
        ELSE [ret |-> Ok([total_chunks |-> Cardinality(Indexed(h)),
                          by_file_type |-> ByFileType([t \in FileTypes |-> Count(t)])]),
              calls |-> log, logged |-> <<>>]

(***************************************************************************)
(* The callers of a store: any sequence of constructions and calls, on the *)
(* backend the configuration selects.                                      *)
(***************************************************************************)
NoArgs ==
    [chunks |-> <<>>, embeddings |-> <<>>, document_name |-> "",
     query_embedding |-> <<>>, top_k |-> 0, file_type_filter |-> None]

\* fault: the server call of the operation that failed (0: none did)
Call(name, args, fault) ==
    [name |-> name, backend |-> VECTOR_STORE, args |-> args, fault |-> fault]

NoPairs == [attempted |-> 0, mismatched |-> 0, stored |-> [t \in FileTypes |-> 0]]

\* history of the store_embeddings calls: the pairs handed over, those of them
\* whose embedding is not of the configured dimension, and, by file type, the
\* pairs of the calls that returned
CountPairs(sp, chunks, embeddings, n, returned) ==
    [attempted |-> sp.attempted + n,
     mismatched |-> sp.mismatched
                    + Cardinality({i \in 1..n : Len(embeddings[i]) # EMBEDDING_DIM}),
     stored |-> IF returned
                THEN [t \in FileTypes |->
                        sp.stored[t] + Cardinality({i \in 1..n : chunks[i].file_type = t})]
                ELSE sp.stored]

Filters == {None} \cup { Some(t) : t \in FileTypes }

Init ==
    /\ VECTOR_STORE \in {"mongodb", "redis"}
    /\ client = "none"
    /\ collection = <<>>
    /\ hashes = EmptyBreakdown
    /\ indexExists = FALSE
    /\ op = Call("none", NoArgs, 0)
    /\ ret = Ok(<<>>)
    /\ calls = <<>>
    /\ logged = <<>>
    /\ storedPairs = NoPairs
    /\ pc = "caller"
    /\ documents = <<>>
    /\ invoked = <<>>
    /\ initError = "none"
    /\ pending = "none"

mainVars == <<pc, documents, invoked, initError, pending>>

MongoConnect ==
    /\ pc = "caller"
    /\ VECTOR_STORE = "mongodb"
    /\ client = "none"
    /\ \E fault \in MongoConnectFaults :
         LET r == MongoVectorStore_init(fault) IN
         /\ client' = IF r.ret.kind = "ok" THEN r.ret.val.class ELSE "none"
         /\ ret' = r.ret
         /\ calls' = r.calls
         /\ logged' = r.logged
    /\ op' = Call("connect", NoArgs, 0)
    /\ UNCHANGED <<VECTOR_STORE, collection, hashes, indexExists, storedPairs, mainVars>>

RedisConnect ==
    /\ pc = "caller"
    /\ VECTOR_STORE = "redis"
    /\ client = "none"
    /\ \E plan \in RedisConnectPlans(indexExists) :
         LET r == RedisVectorStore_init(indexExists, plan) IN
         /\ client' = IF r.ret.kind = "ok" THEN r.ret.val.class ELSE "none"
         /\ indexExists' = r.indexExists
         /\ ret' = r.ret
         /\ calls' = r.calls
         /\ logged' = r.logged
    /\ op' = Call("connect", NoArgs, 0)
    /\ UNCHANGED <<VECTOR_STORE, collection, hashes, storedPairs, mainVars>>

MongoStore ==
    /\ pc = "caller"
    /\ client = "mongo"
    /\ storedPairs.attempted < MaxRecords
    /\ \E chunks \in SeqsUpTo(Chunks, MaxBatch),
          embeddings \in SeqsUpTo(Embeddings, MaxBatch),
          document_name \in DocumentNames,
          fault \in 0..1 :
         LET n == ZipLen(chunks, embeddings)
             r == MongoStoreEmbeddings(collection, chunks, embeddings, document_name, fault)
         IN
         /\ storedPairs.attempted + n <= MaxRecords
         /\ collection' = r.collection
         /\ ret' = r.ret
         /\ calls' = r.calls
         /\ storedPairs' = CountPairs(storedPairs, chunks, embeddings, n, r.ret.kind = "ok")
         /\ op' = Call("store_embeddings",
                       [NoArgs EXCEPT !.chunks = chunks, !.embeddings = embeddings,
                                      !.document_name = document_name],
                       fault)
    /\ logged' = <<>>
    /\ UNCHANGED <<VECTOR_STORE, client, hashes, indexExists, mainVars>>

RedisStore ==
    /\ pc = "caller"
    /\ client = "redis"
    /\ storedPairs.attempted < MaxRecords
    /\ \E chunks \in SeqsUpTo(Chunks, MaxBatch),
          embeddings \in SeqsUpTo(Embeddings, MaxBatch),
          document_name \in DocumentNames,
          fault \in 0..MaxBatch :
         LET n == ZipLen(chunks, embeddings)
             r == RedisStoreEmbeddings(hashes, chunks, embeddings, document_name, fault)
         IN
         /\ fault <= n
         /\ storedPairs.attempted + n <= MaxRecords
         /\ hashes' = r.hashes
         /\ ret' = r.ret
         /\ calls' = r.calls
         /\ storedPairs' = CountPairs(storedPairs, chunks, embeddings, n, r.ret.kind = "ok")
         /\ op' = Call("store_embeddings",
                       [NoArgs EXCEPT !.chunks = chunks, !.embeddings = embeddings,
                                      !.document_name = document_name],
                       fault)
    /\ logged' = <<>>
    /\ UNCHANGED <<VECTOR_STORE, client, collection, indexExists, mainVars>>

MongoSearch ==
    /\ pc = "caller"
    /\ client = "mongo"
    /\ \E query_embedding \in Queries, top_k \in 1..MaxTopK,
          file_type_filter \in Filters, fault \in 0..1 :
         LET r == MongoSimilaritySearch(collection, query_embedding, top_k,
                                        file_type_filter, fault)
         IN
         /\ ret' = r.ret
         /\ calls' = r.calls
         /\ op' = Call("similarity_search",
                       [NoArgs EXCEPT !.query_embedding = query_embedding,
                                      !.top_k = top_k,
                                      !.file_type_filter = file_type_filter],
                       fault)
    /\ logged' = <<>>
    /\ UNCHANGED <<VECTOR_STORE, client, collection, hashes, indexExists,
                   storedPairs, mainVars>>

RedisSearch ==
    /\ pc = "caller"
    /\ client = "redis"
    /\ \E query_embedding \in Queries, top_k \in 1..MaxTopK,
          file_type_filter \in Filters, fault \in 0..1 :
         \E reply \in (IF fault = 0 /\ indexExists
                       THEN EngineKnn(hashes, RedisQuery(top_k, file_type_filter),
                                      ToBytes(query_embedding))
                       ELSE {<<>>}) :
         LET r == RedisSimilaritySearch(indexExists, reply, fault) IN
         /\ ret' = r.ret
         /\ calls' = r.calls
         /\ logged' = r.logged
         /\ op' = Call("similarity_search",
                       [NoArgs EXCEPT !.query_embedding = query_embedding,
                                      !.top_k = top_k,
                                      !.file_type_filter = file_type_filter],
                       fault)
    /\ UNCHANGED <<VECTOR_STORE, client, collection, hashes, indexExists,
                   storedPairs, mainVars>>

MongoStatistics ==
    /\ pc = "caller"
    /\ client = "mongo"
    /\ \E fault \in 0..(1 + Len(FileTypeList)) :
         LET r == MongoGetStatistics(collection, fault) IN
         /\ ret' = r.ret
         /\ calls' = r.calls
         /\ op' = Call("get_statistics", NoArgs, fault)
    /\ logged' = <<>>
    /\ UNCHANGED <<VECTOR_STORE, client, collection, hashes, indexExists,
                   storedPairs, mainVars>>

\* faulty variant of the statistics call: the hashes are gone afterwards
RedisStatisticsClearing ==
    /\ pc = "caller"
    /\ client = "redis"
    /\ \E fault \in 0..(1 + Len(FileTypeList)) :
         LET r == RedisGetStatistics(hashes, indexExists, fault) IN
         /\ ret' = r.ret
         /\ calls' = r.calls
         /\ logged' = r.logged
         /\ op' = Call("get_statistics", NoArgs, fault)
    /\ hashes' = EmptyBreakdown
    /\ UNCHANGED <<VECTOR_STORE, client, collection, indexExists,
                   storedPairs, mainVars>>

RedisStatistics ==
    /\ pc = "caller"
    /\ client = "redis"
    /\ \E fault \in 0..(1 + Len(FileTypeList)) :
         LET r == RedisGetStatistics(hashes, indexExists, fault) IN
         /\ ret' = r.ret
         /\ calls' = r.calls
         /\ logged' = r.logged
         /\ op' = Call("get_statistics", NoArgs, fault)
    /\ UNCHANGED <<VECTOR_STORE, client, collection, hashes, indexExists,
                   storedPairs, mainVars>>

\* close(): the session is released; the object is not used again
Close ==
    /\ pc = "caller"
    /\ client \in {"mongo", "redis"}
    /\ client' = "none"
    /\ op' = Call("close", NoArgs, 0)
    /\ ret' = Ok(<<>>)
    /\ calls' = <<"close">>
    /\ logged' = <<>>
    /\ UNCHANGED <<VECTOR_STORE, collection, hashes, indexExists,
                   storedPairs, mainVars>>

Next ==
    \/ MongoConnect
    \/ RedisConnect
    \/ MongoStore
    \/ RedisStore
    \/ MongoSearch
    \/ RedisSearch
    \/ MongoStatistics
    \/ RedisStatistics
    \/ Close

Spec == Init /\ [][Next]_vars

(***************************************************************************)
(* DocumentVectorizer (app/main.py): extraction, embedding, and the calls  *)
(* it forwards to its store.                                               *)
(***************************************************************************)
\* str.strip() of a paragraph
Strip(p) == CASE p = " x " -> "x" [] p = "  " -> "" [] OTHER -> p

\* str.lower() of the backend selector
Lower(w) == CASE w = "REDIS" -> "redis" [] OTHER -> w

\* the files of SOURCEDIR: a PDF is a sequence of pages, each the sequence of
\* the paragraphs text.split('\n\n') gives; a TXT or DOCX file has one such
\* sequence.  ord is the rank of the path in sorted order.
Files ==
    { [ord |-> 1, path |-> "docs/a.pdf", name |-> "a.pdf", ext |-> ".pdf",
       pages |-> << <<" x ", "">>, <<"y">> >>],
      [ord |-> 2, path |-> "docs/b.txt", name |-> "b.txt", ext |-> ".txt",
       pages |-> << <<"  ", "x", "y">> >>],
      [ord |-> 3, path |-> "docs/c.docx", name |-> "c.docx", ext |-> ".docx",
       pages |-> << <<"", "  ">> >>] }

MaxDocs == 2

\* get_documents_from_path: the matching files, sorted
DocumentLists ==
    { d \in UNION { [1..m -> Files] : m \in 0..MaxDocs } :
        \A i \in 1..(Len(d) - 1) : d[i].ord < d[i + 1].ord }

\* the chunks of one sequence of paragraphs: one per paragraph that is not
\* blank, chunk_index the position of the paragraph in that sequence, from 0
RECURSIVE ParagraphChunks(_, _, _, _, _)
ParagraphChunks(paragraphs, i, page_number, source, file_type) ==
    IF i > Len(paragraphs) THEN <<>>
    ELSE (IF Strip(paragraphs[i]) # ""
          THEN << [text |-> Strip(paragraphs[i]), page_number |-> page_number,
                   chunk_index |-> i - 1, source |-> source, file_type |-> file_type] >>
          ELSE <<>>)
         \o ParagraphChunks(paragraphs, i + 1, page_number, source, file_type)

\* extract_text_from_pdf: page by page, page_number = page_num + 1
RECURSIVE PdfChunks(_, _)
PdfChunks(file, page_num) ==
    IF page_num >= Len(file.pages) THEN <<>>
    ELSE ParagraphChunks(file.pages[page_num + 1], 1, Some(page_num + 1), file.path, "pdf")
         \o PdfChunks(file, page_num + 1)

extract_text_from_pdf(file) == PdfChunks(file, 0)

extract_text_from_txt(file) == ParagraphChunks(file.pages[1], 1, None, file.path, "txt")

extract_text_from_docx(file) == ParagraphChunks(file.pages[1], 1, None, file.path, "docx")

\* extract_text: dispatch on the extension
extract_text(file) ==
    CASE file.ext = ".pdf" -> extract_text_from_pdf(file)
      [] file.ext = ".txt" -> extract_text_from_txt(file)
      [] OTHER -> extract_text_from_docx(file)

\* SentenceTransformer.encode of one text (the embedding model, a black box)
Encode(text) ==
    CASE text = "x" -> <<1, 0>> [] text = "y" -> <<3, 4>> [] OTHER -> <<0, 1>>

generate_embeddings(texts) == [i \in 1..Len(texts) |-> Encode(texts[i])]

MAIN_TOP_K == 3

Invocation(on, method, n) == [on |-> on, method |-> method, n |-> n]

\* DocumentVectorizer.__init__: builds the store the selector names; every
\* exception, the ValueError of an unknown selector included, is logged and
\* not re-raised, and self.client stays None
DocumentVectorizer_init(selector, exists, mongoFault, redisPlan) ==
    LET r == CASE Lower(selector) = "mongodb" ->
                    MongoVectorStore_init(mongoFault) @@ [indexExists |-> exists]
               [] Lower(selector) = "redis" -> RedisVectorStore_init(exists, redisPlan)
               [] OTHER -> [ret |-> Raise("ValueError"), indexExists |-> exists,
                            calls |-> <<>>, logged |-> <<>>]
    IN  [client |-> IF r.ret.kind = "ok" THEN r.ret.val.class ELSE "none",
         initError |-> r.ret.exc,
         indexExists |-> r.indexExists,
         ret |-> Ok(<<>>),
         calls |-> r.calls,
         logged |-> r.logged \o
                    (IF r.ret.kind = "ok" THEN <<"info: Using vector store">>
                     ELSE <<"error: Error initializing DocumentVectorizer">>)]

\* self.client.store_embeddings(...) of process_document, on whatever
\* self.client is: a method call on None raises AttributeError
ClientStore(cl, coll, h, chunks, embeddings, document_name, fault) ==
    CASE cl = "mongo" ->
           MongoStoreEmbeddings(coll, chunks, embeddings, document_name, Min(fault, 1))
           @@ [hashes |-> h]
      [] cl = "redis" ->
           RedisStoreEmbeddings(h, chunks, embeddings, document_name, fault)
           @@ [collection |-> coll]
      [] OTHER -> [ret |-> Raise("AttributeError"), collection |-> coll, hashes |-> h,
                   calls |-> <<>>]

\* faulty variant of process_document: a document without chunks is not
\* rejected, the empty lists go to the store and chunks[0] raises afterwards
process_documentWithoutCheck(cl, coll, h, file, fault) ==
    LET chunks == extract_text(file)
        embeddings == generate_embeddings([i \in 1..Len(chunks) |-> chunks[i].text])
        st == ClientStore(cl, coll, h, chunks, embeddings, file.name, fault)
    IN  [ret |-> IF st.ret.kind = "raise" THEN st.ret
                 ELSE IF chunks = <<>> THEN Raise("IndexError")
                 ELSE Ok([document_name |-> file.name,
                          file_type |-> chunks[1].file_type,
                          total_chunks |-> Len(chunks),
                          inserted_ids |-> Take(st.ret.val, 3),
                          embedding_dimension |-> Len(embeddings[1])]),
         collection |-> st.collection, hashes |-> st.hashes, calls |-> st.calls,
         invoked |-> IF cl = "none" THEN <<>>
                     ELSE <<Invocation("client", "store_embeddings", Len(chunks))>>,
         chunks |-> chunks, embeddings |-> embeddings]

\* process_document: extract, reject a document without chunks, embed, store
process_document(cl, coll, h, file, fault) ==
    LET chunks == extract_text(file)
        embeddings == generate_embeddings([i \in 1..Len(chunks) |-> chunks[i].text])
        st == ClientStore(cl, coll, h, chunks, embeddings, file.name, fault)
    IN  IF chunks = <<>>
        THEN [ret |-> Raise("ValueError"), collection |-> coll, hashes |-> h,
              calls |-> <<>>, invoked |-> <<>>, chunks |-> chunks,
              embeddings |-> embeddings]
        ELSE [ret |-> IF st.ret.kind = "raise" THEN st.ret
                      ELSE Ok([document_name |-> file.name,
                               file_type |-> chunks[1].file_type,
                               total_chunks |-> Len(chunks),
                               inserted_ids |-> Take(st.ret.val, 3),
                               embedding_dimension |-> Len(embeddings[1])]),
              collection |-> st.collection, hashes |-> st.hashes, calls |-> st.calls,
              invoked |-> IF cl = "none" THEN <<>>
                          ELSE <<Invocation("client", "store_embeddings", Len(chunks))>>,
              chunks |-> chunks, embeddings |-> embeddings]

(***************************************************************************)
(* __main__: build the vectorizer, process every document of SOURCEDIR,    *)
(* print the statistics, run one search, and close in the finally block.   *)
(***************************************************************************)
InitMain ==
    /\ VECTOR_STORE \in {"mongodb", "redis", "REDIS", "sqlite"}
    /\ client = "none"
    /\ collection = <<>>
    /\ hashes = EmptyBreakdown
    /\ indexExists \in BOOLEAN
    /\ op = Call("none", NoArgs, 0)
    /\ ret = Ok(<<>>)
    /\ calls = <<>>
    /\ logged = <<>>
    /\ storedPairs = NoPairs
    /\ pc = "start"
    /\ documents \in DocumentLists
    /\ invoked = <<>>
    /\ initError = "none"
    /\ pending = "none"

\* vectorizer = DocumentVectorizer(config_params, logger_instance)
MainConstruct ==
    /\ pc = "start"
    /\ \E mongoFault \in MongoConnectFaults, redisPlan \in RedisConnectPlans(indexExists) :
         LET r == DocumentVectorizer_init(VECTOR_STORE, indexExists, mongoFault, redisPlan)
         IN
         /\ client' = r.client
         /\ initError' = r.initError
         /\ indexExists' = r.indexExists
         /\ ret' = r.ret
         /\ calls' = r.calls
         /\ logged' = r.logged
    /\ op' = Call("DocumentVectorizer", NoArgs, 0)
    /\ pc' = "loop"
    /\ UNCHANGED <<VECTOR_STORE, collection, hashes, storedPairs, documents, invoked, pending>>

\* one turn of `for doc_path in documents`: process_document in a try block
\* whose handlers print the error and go on with the next document
MainProcess ==
    /\ pc = "loop"
    /\ documents # <<>>
    /\ \E fault \in 0..MaxBatch :
         LET file == Head(documents)
             r == process_document(client, collection, hashes, file, fault)
         IN
         /\ collection' = r.collection
         /\ hashes' = r.hashes
         /\ ret' = r.ret
         /\ calls' = r.calls
         /\ invoked' = invoked \o <<Invocation("vectorizer", "process_document", 0)>>
                               \o r.invoked
         /\ storedPairs' = CountPairs(storedPairs, r.chunks, r.embeddings, Len(r.chunks),
                                      r.ret.kind = "ok")
         /\ op' = Call("process_document",
                       [NoArgs EXCEPT !.chunks = r.chunks, !.document_name = file.name],
                       fault)
    /\ documents' = Tail(documents)
    /\ logged' = <<>>
    /\ UNCHANGED <<VECTOR_STORE, client, indexExists, pc, initError, pending>>

\* stats = vectorizer.get_statistics(): outside any handler but the finally
MainStatistics ==
    /\ pc = "loop"
    /\ documents = <<>>
    /\ \E fault \in 0..(1 + Len(FileTypeList)) :
         LET r == CASE client = "mongo" ->
                        MongoGetStatistics(collection, fault) @@ [logged |-> <<>>]
                   [] client = "redis" -> RedisGetStatistics(hashes, indexExists, fault)
                   [] OTHER -> [ret |-> Raise("AttributeError"), calls |-> <<>>,
                                logged |-> <<>>]
         IN
         /\ ret' = r.ret
         /\ calls' = r.calls
         /\ logged' = r.logged
         /\ pending' = r.ret.exc
         /\ pc' = IF r.ret.kind = "ok" THEN "search" ELSE "finally"
         /\ op' = Call("get_statistics", NoArgs, fault)
    /\ invoked' = invoked \o <<Invocation("vectorizer", "get_statistics", 0)>>
                          \o (IF client = "none" THEN <<>>
                              ELSE <<Invocation("client", "get_statistics", 0)>>)
    /\ UNCHANGED <<VECTOR_STORE, client, collection, hashes, indexExists, storedPairs,
                   documents, initError>>

\* results = vectorizer.similarity_search("machine learning", top_k=3)
MainSearch ==
    /\ pc = "search"
    /\ \E fault \in 0..1 :
         \E reply \in (IF client = "redis" /\ fault = 0 /\ indexExists
                       THEN EngineKnn(hashes, RedisQuery(MAIN_TOP_K, None),
                                      ToBytes(Encode("machine learning")))
                       ELSE {<<>>}) :
         LET r == CASE client = "mongo" ->
                        MongoSimilaritySearch(collection, Encode("machine learning"),
                                              MAIN_TOP_K, None, fault)
                        @@ [logged |-> <<>>]
                   [] client = "redis" -> RedisSimilaritySearch(indexExists, reply, fault)
                   [] OTHER -> [ret |-> Raise("AttributeError"), calls |-> <<>>,
                                logged |-> <<>>]
         IN
         /\ ret' = r.ret
         /\ calls' = r.calls
         /\ logged' = r.logged
         /\ pending' = r.ret.exc
         /\ op' = Call("similarity_search",
                       [NoArgs EXCEPT !.query_embedding = Encode("machine learning"),
                                      !.top_k = MAIN_TOP_K],
                       fault)
    /\ invoked' = invoked \o <<Invocation("vectorizer", "similarity_search", 0)>>
                          \o (IF client = "none" THEN <<>>
                              ELSE <<Invocation("client", "similarity_search", 0)>>)
    /\ pc' = "finally"
    /\ UNCHANGED <<VECTOR_STORE, client, collection, hashes, indexExists, storedPairs,
                   documents, initError>>

\* finally: vectorizer.close(); on a vectorizer without a store it raises
\* AttributeError, which then is the exception the process ends with
MainFinally ==
    /\ pc = "finally"
    /\ invoked' = invoked \o <<Invocation("vectorizer", "close", 0)>>
                          \o (IF client = "none" THEN <<>>
                              ELSE <<Invocation("client", "close", 0)>>)
    /\ pending' = IF client = "none" THEN "AttributeError" ELSE pending
    /\ ret' = IF client = "none" THEN Raise("AttributeError") ELSE Ok(<<>>)
    /\ calls' = IF client = "none" THEN <<>> ELSE <<"close">>
    /\ op' = Call("close", NoArgs, 0)
    /\ logged' = <<>>
    /\ pc' = "exit"
    /\ UNCHANGED <<VECTOR_STORE, client, collection, hashes, indexExists, storedPairs,
                   documents, initError>>

NextMain ==
    \/ MainConstruct
    \/ MainProcess
    \/ MainStatistics
    \/ MainSearch
    \/ MainFinally

SpecMain == InitMain /\ [][NextMain]_vars

(***************************************************************************)
(* Claims.                                                                 *)
(***************************************************************************)
Args == op.args

\* the stored records, whichever backend is configured, as a set of
\* [id, file_type, dim] summaries
StoredSummaries ==
    IF op.backend = "mongodb"
    THEN { [id |-> Str(collection[i]._id), file_type |-> collection[i].file_type,
            dim |-> Len(collection[i].embedding)] : i \in 1..Len(collection) }
    ELSE { [id |-> k, file_type |-> hashes[k].file_type,
            dim |-> Len(hashes[k].embedding.f32)] : k \in DOMAIN hashes }

\* the record stored under id is the one built from (chunk, embedding)
HoldsPair(id, chunk, embedding, document_name) ==
    IF op.backend = "mongodb"
    THEN /\ Cardinality({ i \in 1..Len(collection) : Str(collection[i]._id) = id }) = 1
         /\ \E i \in 1..Len(collection) :
              /\ Str(collection[i]._id) = id
              /\ collection[i].document_name = document_name
              /\ collection[i].text = chunk.text
              /\ collection[i].page_number = chunk.page_number
              /\ collection[i].chunk_index = chunk.chunk_index
              /\ collection[i].source = chunk.source
              /\ collection[i].file_type = chunk.file_type
              /\ collection[i].embedding = embedding
    ELSE /\ id \in DOMAIN hashes
         /\ hashes[id].document_name = document_name
         /\ hashes[id].text = chunk.text
         /\ hashes[id].page_number =
              (IF chunk.page_number = None THEN PAGE_SENTINEL ELSE chunk.page_number[1])
         /\ hashes[id].chunk_index = chunk.chunk_index
         /\ hashes[id].source = chunk.source
         /\ hashes[id].file_type = chunk.file_type
         /\ hashes[id].embedding.f32 = embedding

\* C1: a store_embeddings call that returns, given as many embeddings as
\* chunks, returns one identifier per pair, no two alike, and the i-th
\* identifier is that of the record holding the i-th chunk and embedding;
\* one record was written per pair (MongoDB: one insert_many of all of
\* them, Redis: one hset each).
C1_OneRecordAndIdPerPair ==
    (/\ op.name = "store_embeddings"
     /\ ret.kind = "ok"
     /\ Len(Args.chunks) = Len(Args.embeddings))
    => LET n == Len(Args.chunks) IN
       /\ Len(ret.val) = n
       /\ \A i, j \in 1..n : i # j => ret.val[i] # ret.val[j]
       /\ \A i \in 1..n :
            HoldsPair(ret.val[i], Args.chunks[i], Args.embeddings[i], Args.document_name)
       /\ IF op.backend = "mongodb" THEN calls = <<"insert_many">>
          ELSE calls = [i \in 1..n |-> "hset"]

\* C1 witness: a Redis store of two pairs whose chunks share a chunk_index
C1_Witness ==
    /\ op.name = "store_embeddings"
    /\ op.backend = "redis"
    /\ ret.kind = "ok"
    /\ Len(Args.chunks) = 2
    /\ Len(Args.embeddings) = 2
    /\ Args.chunks[1].chunk_index = Args.chunks[2].chunk_index

\* the number of stored records a search with this filter is over
MatchingStored(file_type_filter) ==
    Cardinality({ r \in StoredSummaries :
                    file_type_filter = None \/ r.file_type = file_type_filter[1] })

SortedDescending(results) ==
    \A i \in 1..(Len(results) - 1) :
        results[i].similarity_score >= results[i + 1].similarity_score

\* C2: a similarity_search in which no error occurs returns at most top_k
\* results, exactly min(top_k, number of stored records matching the filter)
\* of them, in descending order of similarity_score.
C2_SearchCountAndOrder ==
    (/\ op.name = "similarity_search"
     /\ op.fault = 0
     /\ ret.kind = "ok"
     /\ logged = <<>>)
    => /\ Len(ret.val) <= Args.top_k
       /\ Len(ret.val) = Min(Args.top_k, MatchingStored(Args.file_type_filter))
       /\ SortedDescending(ret.val)

\* C3: similarity_search never raises; when a step of it fails it returns the
\* empty sequence and logs the failure.
C3_SearchNeverFailsCaller ==
    op.name = "similarity_search"
    => /\ ret.kind = "ok"
       /\ op.fault # 0 => (ret.val = <<>> /\ logged # <<>>)

DimensionMismatch(embeddings, n) ==
    \E i \in 1..n : Len(embeddings[i]) # EMBEDDING_DIM

\* C4: a store_embeddings call with an embedding whose length is not
\* EMBEDDING_DIM raises DatabaseOperationError and leaves the number of
\* stored records as it was.
C4_DimensionMismatchRejected ==
    [][(/\ op'.name = "store_embeddings"
        /\ DimensionMismatch(op'.args.embeddings,
                             ZipLen(op'.args.chunks, op'.args.embeddings)))
       => /\ ret'.kind = "raise"
          /\ ret'.exc = "DatabaseOperationError"
          /\ Len(collection') = Len(collection)
          /\ DOMAIN hashes' = DOMAIN hashes]_vars

Issued(call, log) == \E i \in 1..Len(log) : log[i] = call

\* C5: constructing RedisVectorStore against a reachable server on which the
\* index already exists issues no create-index call, does not raise, and
\* leaves the one index in place.
C5_IndexCreationIdempotent ==
    [][(/\ op'.name = "connect"
        /\ op'.backend = "redis"
        /\ indexExists
        /\ Len(calls') > 1)
       => /\ ~Issued("create_index", calls')
          /\ ret'.kind = "ok"
          /\ indexExists']_vars

ConnectFailureLogged ==
    \E i \in 1..Len(logged) :
        logged[i] \in {"error: Redis connection failed",
                       "error: MongoDB connection failed",
                       "error: MongoDB connection error"}

\* C6: a construction during which a failure occurred raises
\* DatabaseConnectionError and hands no store object to the caller.
C6_ConnectFailurePropagates ==
    (op.name = "connect" /\ ConnectFailureLogged)
    => /\ ret.kind = "raise"
       /\ ret.exc = "DatabaseConnectionError"
       /\ client = "none"

\* C7: after a DocumentVectorizer construction that failed, __main__ calls no
\* further operation (process_document and through it store_embeddings,
\* get_statistics, similarity_search, close).
C7_NoOperationAfterFailedInit ==
    initError # "none" => invoked = <<>>

ZeroedStatistics == [total_chunks |-> 0, by_file_type |-> EmptyBreakdown]

\* C8: get_statistics never raises; when one of its queries fails it returns
\* the zeroed result.
C8_StatisticsFailureAbsorbed ==
    op.name = "get_statistics"
    => /\ ret.kind = "ok"
       /\ op.fault # 0 => ret.val = ZeroedStatistics

\* C9: every result of a similarity_search with file_type_filter f has
\* file_type f, and there are at most min(top_k, number of stored chunks of
\* type f) of them; without a filter no stored record of the index dimension
\* is left out of a result that top_k did not cut short, whatever its type.
C9_FileTypeFilter ==
    (op.name = "similarity_search" /\ ret.kind = "ok")
    => /\ Args.file_type_filter # None =>
            /\ \A i \in 1..Len(ret.val) : ret.val[i].file_type = Args.file_type_filter[1]
            /\ Len(ret.val) <= Min(Args.top_k, MatchingStored(Args.file_type_filter))
       /\ (Args.file_type_filter = None /\ logged = <<>> /\ Len(ret.val) < Args.top_k) =>
            \A r \in StoredSummaries :
                r.dim = EMBEDDING_DIM => \E i \in 1..Len(ret.val) : ret.val[i].id = r.id

\* C9 witness: a filtered search that returns a result while a record of
\* another file type is stored
C9_Witness ==
    /\ op.name = "similarity_search"
    /\ ret.kind = "ok"
    /\ Args.file_type_filter = Some("pdf")
    /\ Len(ret.val) = 1
    /\ \E r \in StoredSummaries : r.file_type = "txt" /\ r.dim = EMBEDDING_DIM

StoredTotal ==
    storedPairs.stored["pdf"] + storedPairs.stored["txt"] + storedPairs.stored["docx"]

\* C10: when every store_embeddings call so far returned and every embedding
\* stored has the configured dimension, a get_statistics call whose queries all
\* succeed reports total_chunks = the number of pairs stored, and
\* by_file_type = the non-zero numbers of pairs stored per file type.
C10_StatisticsRoundTrip ==
    (/\ op.name = "get_statistics"
     /\ op.fault = 0
     /\ logged = <<>>
     /\ storedPairs.attempted = StoredTotal
     /\ storedPairs.mismatched = 0)
    => /\ ret.kind = "ok"
       /\ ret.val.total_chunks = StoredTotal
       /\ ret.val.by_file_type =
            [t \in { u \in FileTypes : storedPairs.stored[u] > 0 } |-> storedPairs.stored[t]]

(***************************************************************************)
(* Both stores side by side: one caller holds a MongoVectorStore and a     *)
(* RedisVectorStore, hands every batch to both and puts every query to     *)
(* both.  No server call fails here.                                       *)
(***************************************************************************)
CrossEmbeddings == Embeddings \cup { <<0, 1>> }

InitCross ==
    /\ VECTOR_STORE = "both"
    /\ client = "both"
    /\ collection = <<>>
    /\ hashes = EmptyBreakdown
    /\ indexExists = TRUE
    /\ op = Call("none", NoArgs, 0)
    /\ ret = Ok(<<>>)
    /\ calls = <<>>
    /\ logged = <<>>
    /\ storedPairs = NoPairs
    /\ pc = "cross"
    /\ documents = <<>>
    /\ invoked = <<>>
    /\ initError = "none"
    /\ pending = "none"

\* store_embeddings(chunks, embeddings, document_name) on each of the stores
CrossStore ==
    /\ pc = "cross"
    /\ storedPairs.attempted < MaxRecords
    /\ \E n \in 1..MaxBatch :
       \E chunks \in [1..n -> Chunks], embeddings \in [1..n -> CrossEmbeddings],
          document_name \in DocumentNames :
         LET m == MongoStoreEmbeddings(collection, chunks, embeddings, document_name, 0)
             r == RedisStoreEmbeddings(hashes, chunks, embeddings, document_name, 0)
         IN
         /\ storedPairs.attempted + n <= MaxRecords
         /\ collection' = m.collection
         /\ hashes' = r.hashes
         /\ ret' = [kind |-> "both", mongo |-> m.ret, redis |-> r.ret]
         /\ calls' = m.calls \o r.calls
         /\ storedPairs' = CountPairs(storedPairs, chunks, embeddings, n, TRUE)
         /\ op' = Call("store_embeddings",
                       [NoArgs EXCEPT !.chunks = chunks, !.embeddings = embeddings,
                                      !.document_name = document_name],
                       0)
    /\ logged' = <<>>
    /\ UNCHANGED <<VECTOR_STORE, client, indexExists, mainVars>>

\* similarity_search(query_embedding, top_k, file_type_filter) on each store
CrossSearch ==
    /\ pc = "cross"
    /\ \E query_embedding \in Queries, top_k \in 1..MaxTopK,
          file_type_filter \in {None, Some("pdf")} :
         \E reply \in EngineKnn(hashes, RedisQuery(top_k, file_type_filter),
                                ToBytes(query_embedding)) :
         LET m == MongoSimilaritySearch(collection, query_embedding, top_k,
                                        file_type_filter, 0)
             r == RedisSimilaritySearch(indexExists, reply, 0)
         IN
         /\ ret' = [kind |-> "both", mongo |-> m.ret, redis |-> r.ret]
         /\ calls' = m.calls \o r.calls
         /\ logged' = r.logged
         /\ op' = Call("similarity_search",
                       [NoArgs EXCEPT !.query_embedding = query_embedding,
                                      !.top_k = top_k,
                                      !.file_type_filter = file_type_filter],
                       0)
    /\ UNCHANGED <<VECTOR_STORE, client, collection, hashes, indexExists,
                   storedPairs, mainVars>>

NextCross ==
    \/ CrossStore
    \/ CrossSearch

SpecCross == InitCross /\ [][NextCross]_vars

\* the fields of a result that do not depend on the backend's identifiers
RankedFields(r) ==
    [text |-> r.text, document_name |-> r.document_name,
     page_number |-> r.page_number, file_type |-> r.file_type,
     similarity_score |-> r.similarity_score]

\* the two stores hold the same records: every pair handed over is one
\* document of the collection and one hash
SameStoredVectors ==
    /\ Len(collection) = storedPairs.attempted
    /\ Cardinality(DOMAIN hashes) = storedPairs.attempted

\* no two stored vectors are equally similar to the query (vectors of
\* different lengths have no similarity to compare)
NoScoreTies(query_embedding) ==
    \A i, j \in 1..Len(collection) :
        (/\ i # j
         /\ Len(collection[i].embedding) = Len(query_embedding)
         /\ Len(collection[j].embedding) = Len(query_embedding))
        => Cosine(query_embedding, collection[i].embedding)
             # Cosine(query_embedding, collection[j].embedding)

\* the two result lists name the same records in the same order, and a
\* stored vector equal to the query comes first with the maximal score
RankingAgrees ==
    /\ ret.mongo.kind = "ok"
    /\ ret.redis.kind = "ok"
    /\ Len(ret.mongo.val) = Len(ret.redis.val)
    /\ \A i \in 1..Len(ret.mongo.val) :
         RankedFields(ret.mongo.val[i]) = RankedFields(ret.redis.val[i])
    /\ (\E i \in 1..Len(collection) : collection[i].embedding = Args.query_embedding)
       => /\ ret.mongo.val # <<>>
          /\ ret.mongo.val[1].similarity_score = Scale
          /\ ret.redis.val # <<>>
          /\ ret.redis.val[1].similarity_score = Scale

\* C11: with the same vectors stored in both stores, no filter and no two
\* stored vectors equally similar to the query, MongoVectorStore and
\* RedisVectorStore return the same records in the same rank order for every
\* top_k, and a stored vector equal to the query is first with the maximal
\* similarity score.
C11_CrossBackendRanking ==
    (/\ op.name = "similarity_search"
     /\ op.backend = "both"
     /\ Args.file_type_filter = None
     /\ SameStoredVectors
     /\ NoScoreTies(Args.query_embedding))
    => RankingAgrees

\* the same, over stores in which every vector has the configured dimension
CrossRankingOfConfiguredDimension ==
    (/\ op.name = "similarity_search"
     /\ op.backend = "both"
     /\ Args.file_type_filter = None
     /\ SameStoredVectors
     /\ storedPairs.mismatched = 0
     /\ NoScoreTies(Args.query_embedding))
    => RankingAgrees

\* C12: a record, once stored under an identifier, keeps that identifier and
\* all its fields through every later operation, a later store_embeddings
\* with the same document_name and chunk indexes included (stated over the
\* stores all of whose embeddings have the configured dimension).
C12_StoredRecordImmutable ==
    [][storedPairs'.mismatched = 0
       => /\ \A i \in 1..Len(collection) :
               i <= Len(collection') /\ collection'[i] = collection[i]
          /\ \A k \in DOMAIN hashes :
               k \in DOMAIN hashes' /\ hashes'[k] = hashes[k]]_vars

CountCalls(call, log) == Cardinality({ i \in 1..Len(log) : log[i] = call })

\* C13: a RedisVectorStore construction that reaches the probe issues no
\* create-index call when the probe succeeds and exactly one when it fails;
\* whenever a construction returns without raising the index exists; and no
\* operation removes an index that exists.
C13_IndexLifecycle ==
    [][/\ (op'.name = "connect" /\ op'.backend = "redis" /\ Len(calls') > 1)
          => \/ calls' = <<"ping", "info", "info">>
             \/ (calls'[2] = "info" /\ CountCalls("create_index", calls') = 1)
       /\ (op'.name = "connect" /\ op'.backend = "redis" /\ ret'.kind = "ok")
          => indexExists'
       /\ indexExists => indexExists']_vars

\* C14: the keys RedisVectorStore.store_embeddings gives the pairs of one
\* call, prefix + document_name + ":" + chunk_index + ":" + position, are
\* pairwise distinct, and after the call every pair of the batch has its own
\* record, also when chunks of the batch share a chunk_index.
C14_BatchKeysDistinct ==
    (/\ op.name = "store_embeddings"
     /\ op.backend = "redis"
     /\ ret.kind = "ok")
    => LET n == ZipLen(Args.chunks, Args.embeddings) IN
       /\ Len(ret.val) = n
       /\ \A i \in 1..n :
            ret.val[i] = <<REDIS_DOC_PREFIX, Args.document_name, ":",
                           Args.chunks[i].chunk_index, ":", i - 1>>
       /\ \A i, j \in 1..n : i # j => ret.val[i] # ret.val[j]
       /\ \A i \in 1..n :
            /\ ret.val[i] \in DOMAIN hashes
            /\ hashes[ret.val[i]].text = Args.chunks[i].text
            /\ hashes[ret.val[i]].source = Args.chunks[i].source
            /\ hashes[ret.val[i]].embedding.f32 = Args.embeddings[i]

\* C14 witness: a Redis batch holding the same chunk twice, with two
\* different embeddings
C14_Witness ==
    /\ op.name = "store_embeddings"
    /\ op.backend = "redis"
    /\ ret.kind = "ok"
    /\ Len(Args.chunks) = 2
    /\ Len(Args.embeddings) = 2
    /\ Args.chunks[1] = Args.chunks[2]
    /\ Args.embeddings[1] # Args.embeddings[2]

\* C15: RedisVectorStore writes a chunk without page_number with the
\* sentinel -1 and a chunk with page_number p with p; similarity_search gives
\* a record holding the sentinel back with page_number None and a record
\* holding p with page_number p; no result carries the sentinel.
C15_PageNumberRoundTrip ==
    /\ (op.name = "store_embeddings" /\ op.backend = "redis" /\ ret.kind = "ok")
       => \A i \in 1..Len(ret.val) :
            hashes[ret.val[i]].page_number =
              (IF Args.chunks[i].page_number = None THEN PAGE_SENTINEL
               ELSE Args.chunks[i].page_number[1])
    /\ (op.name = "similarity_search" /\ op.backend = "redis" /\ ret.kind = "ok")
       => \A i \in 1..Len(ret.val) :
            /\ ret.val[i].page_number # Some(PAGE_SENTINEL)
            /\ ret.val[i].page_number =
                 (IF hashes[ret.val[i].id].page_number = PAGE_SENTINEL THEN None
                  ELSE Some(hashes[ret.val[i].id].page_number))

\* C15 witness: a Redis search returning a record stored without page_number
\* and a record stored with one
C15_Witness ==
    /\ op.name = "similarity_search"
    /\ op.backend = "redis"
    /\ ret.kind = "ok"
    /\ \E i, j \in 1..Len(ret.val) :
         /\ ret.val[i].page_number = None
         /\ hashes[ret.val[i].id].page_number = PAGE_SENTINEL
         /\ ret.val[j].page_number = Some(1)

\* C16: in a RedisVectorStore.similarity_search without error every
\* similarity_score is 1 minus the engine's distance between the query and
\* the hit, the results are in descending order of similarity_score, and
\* top_k hits are asked for: the results are the min(top_k, matching indexed
\* records) nearest.
C16_RedisScoreIsOneMinusDistance ==
    (/\ op.name = "similarity_search"
     /\ op.backend = "redis"
     /\ ret.kind = "ok"
     /\ logged = <<>>)
    => /\ \A i \in 1..Len(ret.val) :
            ret.val[i].similarity_score =
              Scale - Distance(ToBytes(Args.query_embedding),
                               hashes[ret.val[i].id].embedding)
       /\ SortedDescending(ret.val)
       /\ Len(ret.val) =
            Min(Args.top_k, Cardinality(TagMatches(hashes, Args.file_type_filter)))

\* C16 witness: a Redis search returning two hits of different scores
C16_Witness ==
    /\ op.name = "similarity_search"
    /\ op.backend = "redis"
    /\ ret.kind = "ok"
    /\ Len(ret.val) = 2
    /\ ret.val[1].similarity_score > ret.val[2].similarity_score

\* the document a MongoVectorStore result was built from
Scanned(r) == collection[Num(r.id)]

\* C17: in MongoVectorStore.similarity_search results of equal
\* similarity_score are in the order their records were scanned, and a record
\* left out by the cut to top_k while tying with a result was scanned after
\* that result.
C17_MongoTiesInScanOrder ==
    (/\ op.name = "similarity_search"
     /\ op.backend = "mongodb"
     /\ ret.kind = "ok")
    => /\ \A i, j \in 1..Len(ret.val) :
            (i < j /\ ret.val[i].similarity_score = ret.val[j].similarity_score)
            => Num(ret.val[i].id) < Num(ret.val[j].id)
       /\ \A i \in 1..Len(ret.val), d \in 1..Len(collection) :
            (/\ Args.file_type_filter = None
                \/ collection[d].file_type = Args.file_type_filter[1]
             /\ \A j \in 1..Len(ret.val) : Num(ret.val[j].id) # d
             /\ Cosine(Args.query_embedding, collection[d].embedding)
                  = ret.val[i].similarity_score)
            => Num(ret.val[i].id) < d

\* C17 witness: a MongoDB search cut to one result while two stored records
\* tie for it, and one returning both tied records
C17_Witness ==
    /\ op.name = "similarity_search"
    /\ op.backend = "mongodb"
    /\ ret.kind = "ok"
    /\ Len(collection) = 2
    /\ collection[1].embedding = collection[2].embedding
    /\ collection[1].text # collection[2].text
    /\ Args.file_type_filter = None
    /\ Len(ret.val) = 1

\* C18: the chunks an extractor produces for one document carry chunk_index
\* values that grow in document order and are pairwise distinct, chunks from
\* different pages of a PDF included.
C18_ChunkIndexUniquePerDocument ==
    op.name = "process_document"
    => \A i, j \in 1..Len(Args.chunks) :
         i < j => Args.chunks[i].chunk_index < Args.chunks[j].chunk_index

ProcessInvocation == Invocation("vectorizer", "process_document", 0)

\* C19: process_document, on a vectorizer that holds a store, raises
\* ValueError for a document without chunks and makes no call to the store;
\* for a document with chunks it calls store_embeddings exactly once, with
\* all the chunks; store_embeddings is never called with an empty sequence.
C19_EmptyDocumentRejected ==
    /\ \A i \in 1..Len(invoked) :
         invoked[i].method = "store_embeddings" => invoked[i].n >= 1
    /\ (op.name = "process_document" /\ client # "none")
       => IF Args.chunks = <<>>
          THEN /\ ret = Raise("ValueError")
               /\ calls = <<>>
               /\ invoked[Len(invoked)] = ProcessInvocation
          ELSE /\ Len(invoked) >= 2
               /\ invoked[Len(invoked) - 1] = ProcessInvocation
               /\ invoked[Len(invoked)] =
                    Invocation("client", "store_embeddings", Len(Args.chunks))

\* C19 witness: a document without chunks processed by a vectorizer that
\* holds a store, after a document with chunks
C19_Witness ==
    /\ op.name = "process_document"
    /\ client # "none"
    /\ Args.chunks = <<>>
    /\ ret = Raise("ValueError")
    /\ \E i \in 1..Len(invoked) : invoked[i].method = "store_embeddings"

\* C20: when process_document fails for a document, __main__ goes on with
\* the remaining documents on the same store object, and the store holds
\* what it held before the call, so that later calls see nothing of it.
C20_FailedStoreLeavesSession ==
    [][(op'.name = "process_document" /\ ret'.kind = "raise")
       => /\ pc' = "loop"
          /\ documents' = Tail(documents)
          /\ client' = client
          /\ collection' = collection
          /\ hashes' = hashes]_vars

\* C21: a similarity_search or get_statistics call, in either backend, on its
\* normal path or its error path, leaves the stored records, their fields
\* and the index as they were.
C21_ReadsAreReadOnly ==
    [][op'.name \in {"similarity_search", "get_statistics"}
       => /\ collection' = collection
          /\ hashes' = hashes
          /\ indexExists' = indexExists]_vars

\* C21 witness: a get_statistics call that took its error path on a Redis
\* store holding a record
C21_Witness ==
    /\ op.name = "get_statistics"
    /\ op.backend = "redis"
    /\ op.fault # 0
    /\ logged # <<>>
    /\ DOMAIN hashes # {}

\* the first n pairs of the call of this step are stored, one record each,
\* and their n identifiers returned
StoresFirstPairs(n) ==
    /\ ret'.kind = "ok"
    /\ Len(ret'.val) = n
    /\ IF op'.backend = "mongodb"
       THEN /\ Len(collection') = Len(collection) + n
            /\ \A i \in 1..Len(collection) : collection'[i] = collection[i]
            /\ \A i \in 1..n :
                 /\ ret'.val[i] = Str(collection'[Len(collection) + i]._id)
                 /\ collection'[Len(collection) + i].text = op'.args.chunks[i].text
                 /\ collection'[Len(collection) + i].embedding
                      = op'.args.embeddings[i]
       ELSE /\ calls' = [i \in 1..n |-> "hset"]
            /\ DOMAIN hashes' = DOMAIN hashes \cup { ret'.val[i] : i \in 1..n }
            /\ \A i \in 1..n :
                 /\ hashes'[ret'.val[i]].text = op'.args.chunks[i].text
                 /\ hashes'[ret'.val[i]].embedding.f32 = op'.args.embeddings[i]

UnequalLengths ==
    /\ op'.name = "store_embeddings"
    /\ op'.fault = 0
    /\ Len(op'.args.chunks) # Len(op'.args.embeddings)

\* C22 as claimed: a store_embeddings call given chunks and embeddings of
\* different lengths, none of whose server calls fails, does not raise: it
\* stores the first min(len(chunks), len(embeddings)) pairs, one record each,
\* and returns that many identifiers; the rest of the longer list is ignored.
C22_SurplusIgnored ==
    [][UnequalLengths
       => StoresFirstPairs(Min(Len(op'.args.chunks), Len(op'.args.embeddings)))]_vars

\* C22 amended: the same when neither list is empty; when one of them is
\* empty nothing is stored, RedisVectorStore returns no identifier and
\* MongoVectorStore raises the TypeError of insert_many([]).
C22_SurplusIgnoredWhenNonEmpty ==
    [][UnequalLengths
       => LET n == Min(Len(op'.args.chunks), Len(op'.args.embeddings)) IN
          IF n >= 1 THEN StoresFirstPairs(n)
          ELSE /\ collection' = collection
               /\ hashes' = hashes
               /\ ret' = IF op'.backend = "mongodb" THEN Raise("TypeError")
                         ELSE Ok(<<>>)]_vars

\* C22 witness: a store of two chunks with one embedding that returned one
\* identifier
C22_Witness ==
    /\ op.name = "store_embeddings"
    /\ Len(Args.chunks) = 2
    /\ Len(Args.embeddings) = 1
    /\ ret.kind = "ok"
    /\ Len(ret.val) = 1

====
